---- MODULE Spec2Model ----
(***************************************************************************)
(* The DataManager of the Global Macro dashboards (src/app1.py and its     *)
(* near-duplicate src/app.py): a background loop thread and the Streamlit  *)
(* script thread both call update_all_data, which fetches six datasets     *)
(* into a fresh dict and swaps it into self.cache under data_lock; the     *)
(* script thread renders by reading self.cache key by key without the lock.*)
(***************************************************************************)
EXTENDS Integers, Sequences, FiniteSets, TLC

\* ---------------------------------------------------------------- bounds
\* update_all_data calls started during one run, over both writer threads
MaxCalls == 2
\* dataset fetches, over one run, in which a provider call fails
MaxFailures == 1
\* items (tickers / series) looked up by one item-wise dataset fetch
NItems == 2

\* ------------------------------------------------------------- constants
Items == 1..NItems

\* the keys of the dict literal of update_all_data, in evaluation order
KeyOrder == <<"market", "economic", "rates", "commodities", "risk", "news">>

DatasetKeys == {KeyOrder[i] : i \in 1..Len(KeyOrder)}

\* the four datasets fetched item by item inside a per-item try/except
ItemwiseKeys == {"market", "economic", "rates", "commodities"}

\* sub-records of the risk dataset
VIX == 1
GPR == 2
Sentiment == 3

\* threads that call update_all_data
Writers == {"loop", "ui"}

Free == "free"

\* the identity of "no update_all_data call": what __init__ wrote
InitCall == <<"init", 0>>

\* ---------------------------------------------------------------- values
\* A dataset value is None or a container (list / dict) of the items that
\* were fetched; an item carries the call that fetched it (src), its
\* "Updated"/"updated" clock reading (at) and whether its number came from
\* the provider (real) or is a substitute.
None == [set |-> FALSE, items |-> [i \in {} |-> 0]]

Container(f) == [set |-> TRUE, items |-> f]

Item(src, at, real) == [src |-> src, at |-> at, real |-> real]

\* Python truthiness of a cache entry: None, [] and {} are falsy
Truthy(v) == v.set /\ DOMAIN v.items # {}

\* the keys DataManager.__init__ puts into self.cache
InitCacheKeys(v) == IF v = "app" THEN DatasetKeys \cup {"sentiment"} ELSE DatasetKeys

\* -------------------------------------------------------------- variables
VARIABLES
    variant,       \* which script runs
    cache,         \* self.cache
    last_updated,  \* self.last_updated
    data_lock,     \* holder of self.data_lock, or Free
    stop_event,    \* self.stop_event.is_set()
    now,           \* latest reading of datetime.now
    pc,            \* position of each writer thread
    new_data,      \* the dict under construction in update_all_data, per thread
    cycles,        \* update_all_data calls started, per thread
    failures,      \* dataset fetches so far in which a provider call failed
    section,       \* render pass: index in KeyOrder of the section reached
    local,         \* render pass: value bound by the section (market_data, ...)
    seen,          \* render pass: the commits whose values the pass has bound
    stopper,       \* position of the thread calling stop()
    cache_by,      \* history: the call whose assignment self.cache holds
    lu_by,         \* history: the call whose assignment self.last_updated holds
    lastGood,      \* history: per key, the call of the last successful fetch
    sleep_left,    \* ticks left of the time.sleep the loop thread is in
    stop_at,       \* history: where the loop thread was when stop_event was set
    stop_swaps,    \* history: assignments of self.cache by the loop thread after stop_event was set
    sessions,      \* per browser session: its script run and its session state
    rf,            \* a resilient fetch: its policy, adapters and progress
    norm,          \* a call of robust_normalize: its argument and its progress
    macro          \* a call of build_results: its argument and its progress

vars == <<variant, cache, last_updated, data_lock, stop_event, now, pc, new_data,
          cycles, failures, section, local, seen, stopper, cache_by, lu_by, lastGood,
          sleep_left, stop_at, stop_swaps, sessions, rf, norm, macro>>

\* what the steps of one DataManager leave alone, stop() and the sleep apart
otherVars == <<sessions, rf, norm, macro>>

auxVars == <<sleep_left, stop_at, stop_swaps, otherVars>>

readerVars == <<section, local, seen>>

managerVars == <<cache, last_updated, data_lock, cache_by, lu_by>>

\* the state of one session's DataManager and of its two threads
dmVars == <<variant, cache, last_updated, data_lock, stop_event, now, pc, new_data,
            cycles, failures, section, local, seen, stopper, cache_by, lu_by, lastGood,
            sleep_left, stop_at, stop_swaps>>

\* the call a writer thread is in
Call(t) == <<t, cycles[t]>>

\* datetime.now(): every reading is later than the reading before it
ClockReadings == {now + 1}

EmptyDict == [k \in {} |-> None]

\* where a thread continues when update_all_data returns
AfterUpdate(t) == IF t = "loop" THEN "sleep" ELSE "rerun"

InUpdate(t) == pc[t] \in {"uad_fetch", "uad_lock", "uad_cache", "uad_lu", "uad_unlock", "uad_except"}

\* ------------------------------------------------------ browser sessions
MaxSessions == 2

MaxReruns == 1

Sessions == 1 .. MaxSessions

\* a browser session before its first script run: st.session_state is empty
\* and no thread was started for it
ClosedSession == [script |-> "closed", runs |-> 0, data_manager |-> FALSE, thread |-> "none"]

NoSessions == [s \in Sessions |-> ClosedSession]

\* ------------------------------------------------------- resilient fetch
MaxAttempts == 3

MaxFallbacks == 2

\* how an adapter behaves over its calls: it always returns a value, it
\* always fails, or either on each call
Behaviours == {"succeeds", "fails", "either"}

\* RetryPolicy.max_attempts
Policies == 1 .. MaxAttempts

\* the primary adapter followed by the fallback adapters, in order
AdapterLists == UNION {[1 .. n -> Behaviours] : n \in 1 .. (1 + MaxFallbacks)}

\* no resilient fetch is under way
NoFetch == [at |-> "idle"]

\* fetch(target, primary_adapter, fallback_adapters, retry_policy) is called
FetchCalled(adapters, max_attempts) ==
    [at |-> "attempt", adapters |-> adapters, max_attempts |-> max_attempts,
     adapter |-> 1, attempt |-> 0, log |-> <<>>, result |-> <<"none", 0>>]

\* FetchAttempt: the record of one try against one adapter
FetchAttempt(adapter, n, ok) == [adapter |-> adapter, n |-> n, ok |-> ok]

FetchFailure == <<"FetchFailure", 0>>

\* ------------------------------------------------- floating-point numbers
\* The columns of a frame are float64. A number is kept as sign, mantissa
\* and exponent, value m * 2^e with MantissaBits significant bits, and every
\* operation rounds its exact result to the nearest such number, ties to
\* even. Exponents are unbounded: prices neither overflow nor underflow.
\* float64 has 53 significant bits; with 6 or 7 bits, as with 53, the
\* nearest number to 1/100 lies above it, which is what decides how a value
\* divided by 100 and multiplied by 100 again rounds next to a power of two.
MantissaBits == 6

NaN == [nan |-> TRUE, neg |-> FALSE, m |-> 0, e |-> 0]

Zero == [nan |-> FALSE, neg |-> FALSE, m |-> 0, e |-> 0]

\* the number of bits of a positive integer
BitLength(n) == CHOOSE k \in 1 .. (4 * MantissaBits) : 2^(k - 1) <= n /\ n < 2^k

\* variation: the bits that do not fit are cut off
RoundDown(q, r, half, sticky) == FALSE

\* does the mantissa q, with r of the 2 * half units below it left over (and
\* more beyond that if sticky), round up? nearest, ties to even
RoundUp(q, r, half, sticky) == r > half \/ (r = half /\ (sticky \/ q % 2 = 1))

\* the float nearest to n * 2^e, for an integer n >= 0 (a little more than
\* that if sticky)
Float(neg, n, e, sticky) ==
    IF n = 0 THEN Zero
    ELSE LET len == BitLength(n)
         IN  IF len <= MantissaBits
             THEN [nan |-> FALSE, neg |-> neg,
                   m |-> n * 2^(MantissaBits - len), e |-> e - (MantissaBits - len)]
             ELSE LET s == len - MantissaBits
                      q == n \div 2^s
                      r == n % 2^s
                      q1 == IF RoundUp(q, r, 2^(s - 1), sticky) THEN q + 1 ELSE q
                  IN  IF q1 = 2^MantissaBits
                      THEN [nan |-> FALSE, neg |-> neg, m |-> 2^(MantissaBits - 1), e |-> e + s + 1]
                      ELSE [nan |-> FALSE, neg |-> neg, m |-> q1, e |-> e + s]

FromInt(n) == Float(FALSE, n, 0, FALSE)

\* a * b
fmul(a, b) ==
    IF a.nan \/ b.nan THEN NaN
    ELSE Float(a.neg # b.neg, a.m * b.m, a.e + b.e, FALSE)

\* a / b for b # 0: the quotient of the mantissas to MantissaBits + 2 bits,
\* the remainder telling whether anything lies beyond them
fdiv(a, b) ==
    IF a.nan \/ b.nan THEN NaN
    ELSE LET n == a.m * 2^(MantissaBits + 2)
         IN  Float(a.neg # b.neg, n \div b.m, a.e - b.e - (MantissaBits + 2), n % b.m # 0)

\* a - b
fsub(a, b) ==
    IF a.nan \/ b.nan THEN NaN
    ELSE LET e == IF a.e < b.e THEN a.e ELSE b.e
             x == (IF a.neg THEN 0 - a.m ELSE a.m) * 2^(a.e - e)
             y == (IF b.neg THEN 0 - b.m ELSE b.m) * 2^(b.e - e)
         IN  IF x >= y THEN Float(FALSE, x - y, e, FALSE) ELSE Float(TRUE, y - x, e, FALSE)

Hundred == FromInt(100)

\* ------------------------------------------------------ robust_normalize
NRows == 2

\* the indices switched on in the sidebar, in the order of the columns
ColumnOrder == <<"S&P 500", "NASDAQ">>

Columns == {ColumnOrder[i] : i \in 1 .. Len(ColumnOrder)}

\* closing prices as the provider may return them, a missing one being NaN
Prices == {NaN, Zero} \cup {FromInt(n) : n \in {3, 4, 25, 41}}

\* the frames load_data returns: df.dropna(how='all') has removed every row
\* in which all columns are missing
Frames ==
    {f \in [Columns -> [1 .. NRows -> Prices]] :
        \A i \in 1 .. NRows : \E c \in Columns : ~f[c][i].nan}

\* Series.first_valid_index(): the first row that is not missing, 0 for None
first_valid_index(col) ==
    IF \A i \in DOMAIN col : col[i].nan THEN 0
    ELSE CHOOSE i \in DOMAIN col : ~col[i].nan /\ \A j \in DOMAIN col : j < i => col[j].nan

\* robust_normalize has not been called
NoFrame == [at |-> "idle"]

\* robust_normalize(df) is called; arg remembers df as it was passed, and
\* once the result of the call before this one
NormCalled(df, pass, once) ==
    [at |-> "copy", df |-> df, df_norm |-> df, view |-> FALSE, col |-> 1,
     arg |-> df, pass |-> pass, once |-> once]

\* --------------------------------------------------------- build_results
NSymbols == 2

MaxWindow == 3

\* the Symbol column of the table, in row order
Symbols == [i \in 1 .. NSymbols |-> i]

\* adjusted closing prices: finite and positive
AdjClose == {FromInt(4), FromInt(41)}

\* what yf.download and the look-ups in its frame can do: raise, or give the
\* rows of the window, possibly none
Downloads ==
    {[raises |-> TRUE, rows |-> <<>>]} \cup
    {[raises |-> FALSE, rows |-> r] : r \in UNION {[1 .. n -> AdjClose] : n \in 0 .. MaxWindow}}

\* the values get_pct_change returns
PctNone == [some |-> FALSE, pct |-> Zero]

Pct(x) == [some |-> TRUE, pct |-> x]

\* build_results has not been called
NoTable == [at |-> "idle"]

\* build_results(df, period_days) is called
BuildCalled(table) ==
    [at |-> "iterrows", table |-> table, row |-> 1, results |-> <<>>,
     data |-> <<>>, pct |-> PctNone]

\* ----------------------------------------------------------------- Init
\* the state after DataManager.__init__ in the first script run of script v
InitOf(v) ==
    /\ variant = v
    /\ cache = [k \in InitCacheKeys(variant) |-> None]
    /\ last_updated = 0
    /\ data_lock = Free
    /\ stop_event = FALSE
    /\ now = 0
    /\ pc = [t \in Writers |-> IF t = "loop" THEN "unstarted" ELSE "start"]
    /\ new_data = [t \in Writers |-> EmptyDict]
    /\ cycles = [t \in Writers |-> 0]
    /\ failures = 0
    /\ section = 0
    /\ local = None
    /\ seen = {}
    /\ stopper = "idle"
    /\ cache_by = InitCall
    /\ lu_by = InitCall
    /\ lastGood = [k \in DatasetKeys |-> InitCall]
    /\ sleep_left = 0
    /\ stop_at = "unset"
    /\ stop_swaps = 0

\* app1.py
Init == InitOf("app1") /\ sessions = NoSessions /\ rf = NoFetch /\ norm = NoFrame /\ macro = NoTable

\* app.py
InitApp == InitOf("app") /\ sessions = NoSessions /\ rf = NoFetch /\ norm = NoFrame /\ macro = NoTable

\* ------------------------------------------------------ DataManager.fetch_*
\* the container an item-wise fetch returns: every provider error is caught
\* per item, the item is dropped, and the items whose lookup succeeded are
\* returned (possibly none)
ItemwiseResult(ok, src, at) == Container([i \in ok |-> Item(src, at, TRUE)])

\* the provider lookups an item-wise fetch makes for item i: the loop body
\* runs once per item, and the handler of a failed lookup goes on to the
\* next item
LookupAttempts(ok, i) == 1

fetch_market_data(ok, src, at) == ItemwiseResult(ok, src, at)

fetch_economic_indicators(ok, src, at) == ItemwiseResult(ok, src, at)

fetch_central_bank_rates(ok, src, at) == ItemwiseResult(ok, src, at)

fetch_commodities(ok, src, at) == ItemwiseResult(ok, src, at)

\* does a failed VIX quote lookup raise out of fetch_risk_sentiment?
\* app.py has no try around it; app1.py substitutes the default 20
VixFailureRaises(v) == v = "app"

\* fetch_risk_sentiment raises: at the quote lookup, or at the history lookup
\* inside the returned dict literal, which no try covers in either script
RiskRaises(v, vixOk, histOk) == (~vixOk /\ VixFailureRaises(v)) \/ ~histOk

\* the dict fetch_risk_sentiment returns: VIX is the quote or the default,
\* GPR and Sentiment are random numbers
fetch_risk_sentiment(vixOk, src, at) ==
    Container([i \in {VIX, GPR, Sentiment} |-> Item(src, at, i = VIX /\ vixOk)])

\* the hard-coded headlines of fetch_news
NewsItems(v) == IF v = "app" THEN 1..3 ELSE 1..2

fetch_news(v, src, at) == Container([i \in NewsItems(v) |-> Item(src, at, FALSE)])

\* the outcomes of the provider calls of one update_all_data call: per
\* item-wise dataset the items whose lookup succeeds, and whether the VIX
\* quote and the VIX history lookups succeed.  An outcome with at most r
\* failed fetches: the item-wise fetches in F lose some item, the others none
RiskOutcomes == [vix : BOOLEAN, hist : BOOLEAN]

RiskFailed(ro) == IF ro.vix /\ ro.hist THEN 0 ELSE 1

Outcome(F, g, ro) ==
    [ok |-> [k \in ItemwiseKeys |-> IF k \in F THEN g[k] ELSE Items], vix |-> ro.vix, hist |-> ro.hist]

OutcomesWithin(r) ==
    UNION {UNION {{Outcome(F, g, ro) : g \in [F -> (SUBSET Items) \ {Items}]} :
                  F \in {G \in SUBSET ItemwiseKeys : Cardinality(G) + RiskFailed(ro) <= r}} :
           ro \in RiskOutcomes}

\* OutcomesWithin as a table over the failures still allowed, built once
OutcomesBy == [r \in 0 .. MaxFailures |-> OutcomesWithin(r)]

\* the dataset fetches of an outcome in which some provider call fails
FailedFetches(o) ==
    Cardinality({k \in ItemwiseKeys : o.ok[k] # Items}) + (IF o.vix /\ o.hist THEN 0 ELSE 1)

\* the entries of the dict literal that get evaluated: all six, or only
\* those before "risk" when fetch_risk_sentiment raises
NewData(v, o, src, at) ==
    LET before == ("market" :> fetch_market_data(o.ok["market"], src, at))
               @@ ("economic" :> fetch_economic_indicators(o.ok["economic"], src, at))
               @@ ("rates" :> fetch_central_bank_rates(o.ok["rates"], src, at))
               @@ ("commodities" :> fetch_commodities(o.ok["commodities"], src, at))
    IN  IF RiskRaises(v, o.vix, o.hist)
        THEN before
        ELSE before @@ ("risk" :> fetch_risk_sentiment(o.vix, src, at))
                    @@ ("news" :> fetch_news(v, src, at))

\* ------------------------------------------- DataManager.update_all_data
\* the call starts: nothing of the dict literal is evaluated yet
BeginUpdate(t) ==
    /\ cycles["loop"] + cycles["ui"] < MaxCalls
    /\ cycles' = [cycles EXCEPT ![t] = @ + 1]
    /\ new_data' = [new_data EXCEPT ![t] = EmptyDict]
    /\ pc' = [pc EXCEPT ![t] = "uad_fetch"]

\* new_data = {"market": self.fetch_market_data(), ...}: the six fetches run
\* in order on the calling thread and touch nothing but locals, so they are
\* one step; the step ends at the lock or, when a fetch raised, in the handler
uad_fetch(t) ==
    /\ pc[t] = "uad_fetch"
    /\ \E o \in OutcomesBy[MaxFailures - failures], at \in ClockReadings :
          /\ failures' = failures + FailedFetches(o)
          /\ now' = at
          /\ new_data' = [new_data EXCEPT ![t] = NewData(variant, o, Call(t), at)]
          /\ lastGood' = [k \in DatasetKeys |->
                            IF k \in DOMAIN new_data'[t] /\ Truthy(new_data'[t][k])
                            THEN Call(t) ELSE lastGood[k]]
          /\ pc' = [pc EXCEPT ![t] = IF RiskRaises(variant, o.vix, o.hist)
                                     THEN "uad_except" ELSE "uad_lock"]
    /\ UNCHANGED <<auxVars, variant, managerVars, stop_event, cycles, readerVars, stopper>>

\* variation: the swap is entered without waiting for the lock
LockIgnored(t) == TRUE

\* threading.Lock: acquire blocks while another thread holds the lock
LockAvailable(t) == data_lock = Free

\* with self.data_lock: (enter)
uad_acquire(t) ==
    /\ pc[t] = "uad_lock"
    /\ LockAvailable(t)
    /\ data_lock' = t
    /\ pc' = [pc EXCEPT ![t] = "uad_cache"]
    /\ UNCHANGED <<auxVars, variant, cache, last_updated, cache_by, lu_by, stop_event, now,
                   new_data, cycles, failures, readerVars, stopper, lastGood>>

\* variation: the dict in the cache is updated in place, container by
\* container, so that items the new fetch lacks stay
SwapMerge(old, nd) ==
    [k \in DOMAIN nd |-> IF k \in DOMAIN old /\ old[k].set
                         THEN Container(nd[k].items @@ old[k].items)
                         ELSE nd[k]]

\* the object self.cache refers to after  self.cache = new_data
SwapCache(old, nd) == nd

\* variation: the lock is given up between the two assignments
uad_assign_cache_release(t) ==
    /\ pc[t] = "uad_cache"
    /\ cache' = SwapCache(cache, new_data[t])
    /\ cache_by' = Call(t)
    /\ data_lock' = Free
    /\ stop_swaps' = IF t = "loop" /\ stop_event THEN stop_swaps + 1 ELSE stop_swaps
    /\ pc' = [pc EXCEPT ![t] = "uad_lu"]
    /\ UNCHANGED <<sleep_left, stop_at, otherVars, variant, last_updated, lu_by,
                   stop_event, now, new_data, cycles, failures, readerVars, stopper, lastGood>>

\* self.cache = new_data
uad_assign_cache(t) ==
    /\ pc[t] = "uad_cache"
    /\ cache' = SwapCache(cache, new_data[t])
    /\ cache_by' = Call(t)
    /\ stop_swaps' = IF t = "loop" /\ stop_event THEN stop_swaps + 1 ELSE stop_swaps
    /\ pc' = [pc EXCEPT ![t] = "uad_lu"]
    /\ UNCHANGED <<sleep_left, stop_at, otherVars, variant, last_updated, data_lock, lu_by,
                   stop_event, now, new_data, cycles, failures, readerVars, stopper, lastGood>>

\* the clock reading carried by the items of a container
ObservedAt(v) == CHOOSE a \in {v.items[i].at : i \in DOMAIN v.items} : TRUE

\* variation: the timestamp stored is one taken while fetching, before the lock
SwapStampStale(t, reading) == ObservedAt(new_data[t]["news"])

\* the timestamp stored: the clock reading taken inside the with block
SwapStamp(t, reading) == reading

\* variation: the timestamp is stored only by a call all of whose fetches
\* returned data
uad_assign_last_updated_if_complete(t) ==
    /\ pc[t] = "uad_lu"
    /\ IF \A k \in DOMAIN new_data[t] : Truthy(new_data[t][k])
       THEN /\ \E r \in ClockReadings :
                  /\ now' = r
                  /\ last_updated' = SwapStamp(t, r)
            /\ lu_by' = Call(t)
       ELSE UNCHANGED <<now, last_updated, lu_by>>
    /\ pc' = [pc EXCEPT ![t] = "uad_unlock"]
    /\ UNCHANGED <<auxVars, variant, cache, data_lock, cache_by, stop_event,
                   new_data, cycles, failures, readerVars, stopper, lastGood>>

\* self.last_updated = datetime.datetime.now(TIME_ZONE)
uad_assign_last_updated(t) ==
    /\ pc[t] = "uad_lu"
    /\ \E r \in ClockReadings :
          /\ now' = r
          /\ last_updated' = SwapStamp(t, r)
    /\ lu_by' = Call(t)
    /\ pc' = [pc EXCEPT ![t] = "uad_unlock"]
    /\ UNCHANGED <<auxVars, variant, cache, data_lock, cache_by, stop_event,
                   new_data, cycles, failures, readerVars, stopper, lastGood>>

\* variation: the lock is acquired by hand and never released
uad_release_leak(t) ==
    /\ pc[t] = "uad_unlock"
    /\ new_data' = [new_data EXCEPT ![t] = EmptyDict]
    /\ pc' = [pc EXCEPT ![t] = AfterUpdate(t)]
    /\ UNCHANGED <<auxVars, variant, managerVars, stop_event, now,
                   cycles, failures, readerVars, stopper, lastGood>>

\* with self.data_lock: (exit), then update_all_data returns
uad_release(t) ==
    /\ pc[t] = "uad_unlock"
    /\ data_lock' = Free
    /\ new_data' = [new_data EXCEPT ![t] = EmptyDict]
    /\ pc' = [pc EXCEPT ![t] = AfterUpdate(t)]
    /\ UNCHANGED <<auxVars, variant, cache, last_updated, cache_by, lu_by, stop_event, now,
                   cycles, failures, readerVars, stopper, lastGood>>

\* variation: update_all_data has no handler, so the exception of a fetch
\* leaves update_all_data and ends the thread that called it
uad_except_escapes(t) ==
    /\ pc[t] = "uad_except"
    /\ new_data' = [new_data EXCEPT ![t] = EmptyDict]
    /\ pc' = [pc EXCEPT ![t] = IF t = "loop" THEN "exited" ELSE "rerun"]
    /\ UNCHANGED <<auxVars, variant, managerVars, stop_event, now, cycles, failures,
                   readerVars, stopper, lastGood>>

\* except Exception as e: st.error(...), then update_all_data returns
uad_except(t) ==
    /\ pc[t] = "uad_except"
    /\ new_data' = [new_data EXCEPT ![t] = EmptyDict]
    /\ pc' = [pc EXCEPT ![t] = AfterUpdate(t)]
    /\ UNCHANGED <<auxVars, variant, managerVars, stop_event, now, cycles, failures,
                   readerVars, stopper, lastGood>>

update_all_data(t) ==
    \/ uad_fetch(t)
    \/ uad_acquire(t)
    \/ uad_assign_cache(t)
    \/ uad_assign_last_updated(t)
    \/ uad_release(t)
    \/ uad_except(t)

\* --------------------------------------------- DataManager.start / stop
\* data_manager.start() in the first script run: the loop thread starts
start ==
    /\ pc["ui"] = "start"
    /\ pc' = [pc EXCEPT !["ui"] = "sidebar", !["loop"] = "loop_check"]
    /\ UNCHANGED <<auxVars, variant, managerVars, stop_event, now, new_data, cycles, failures,
                   readerVars, stopper, lastGood>>

\* variation: the loop never looks at stop_event
loop_check_unconditional ==
    /\ pc["loop"] = "loop_check"
    /\ BeginUpdate("loop")
    /\ UNCHANGED <<auxVars, variant, managerVars, stop_event, now, failures, readerVars,
                   stopper, lastGood>>

\* while not self.stop_event.is_set(): self.update_all_data()
loop_check ==
    /\ pc["loop"] = "loop_check"
    /\ IF stop_event
       THEN /\ pc' = [pc EXCEPT !["loop"] = "exited"]
            /\ UNCHANGED <<cycles, new_data>>
       ELSE BeginUpdate("loop")
    /\ UNCHANGED <<auxVars, variant, managerVars, stop_event, now, failures, readerVars,
                   stopper, lastGood>>

\* time.sleep(REFRESH_INTERVAL) returns
loop_sleep ==
    /\ pc["loop"] = "sleep"
    /\ pc' = [pc EXCEPT !["loop"] = "loop_check"]
    /\ UNCHANGED <<auxVars, variant, managerVars, stop_event, now, new_data, cycles, failures,
                   readerVars, stopper, lastGood>>

\* variation: stop() goes to join without setting stop_event
stop_set_unsignalled ==
    /\ stopper = "idle"
    /\ pc["loop"] # "unstarted"
    /\ stopper' = "joining"
    /\ stop_at' = pc["loop"]
    /\ UNCHANGED <<sleep_left, stop_swaps, otherVars, variant, managerVars, stop_event, now, pc, new_data,
                   cycles, failures, readerVars, lastGood>>

\* stop(): self.stop_event.set()
stop_set ==
    /\ stopper = "idle"
    /\ pc["loop"] # "unstarted"
    /\ stop_event' = TRUE
    /\ stopper' = "joining"
    /\ stop_at' = pc["loop"]
    /\ UNCHANGED <<sleep_left, stop_swaps, otherVars, variant, managerVars, now, pc, new_data, cycles, failures,
                   readerVars, lastGood>>

\* stop(): self.thread.join() returns once the loop thread has ended
stop_join ==
    /\ stopper = "joining"
    /\ pc["loop"] = "exited"
    /\ stopper' = "returned"
    /\ UNCHANGED <<auxVars, variant, managerVars, stop_event, now, pc, new_data, cycles,
                   failures, readerVars, lastGood>>

\* ------------------------------------------------------ the script thread
\* the sidebar: last_updated is shown; the Manual Refresh button either was
\* pressed (update_all_data, then st.rerun) or not (the sections are rendered)
sidebar ==
    /\ pc["ui"] = "sidebar"
    /\ \/ /\ BeginUpdate("ui")
          /\ UNCHANGED readerVars
       \/ /\ pc' = [pc EXCEPT !["ui"] = "render_check"]
          /\ section' = 1
          /\ local' = None
          /\ seen' = {}
          /\ UNCHANGED <<cycles, new_data>>
    /\ UNCHANGED <<auxVars, variant, managerVars, stop_event, now, failures, stopper, lastGood>>

\* the script moves on to the next section, or ends after the last one
NextSection ==
    IF section = Len(KeyOrder)
    THEN /\ pc' = [pc EXCEPT !["ui"] = "done"]
         /\ UNCHANGED section
    ELSE /\ pc' = [pc EXCEPT !["ui"] = "render_check"]
         /\ section' = section + 1

\* if data_manager.cache[key]:
render_check ==
    /\ pc["ui"] = "render_check"
    /\ IF Truthy(cache[KeyOrder[section]])
       THEN /\ pc' = [pc EXCEPT !["ui"] = "render_bind"]
            /\ UNCHANGED section
       ELSE NextSection
    /\ UNCHANGED <<auxVars, variant, managerVars, stop_event, now, new_data, cycles, failures,
                   local, seen, stopper, lastGood>>

\* variation: the section reads the cache under data_lock, so it waits
\* while a writer is inside the with block
render_bind_locked ==
    /\ pc["ui"] = "render_bind"
    /\ data_lock = Free
    /\ local' = cache[KeyOrder[section]]
    /\ seen' = seen \cup {cache_by}
    /\ NextSection
    /\ UNCHANGED <<auxVars, variant, managerVars, stop_event, now, new_data, cycles, failures,
                   stopper, lastGood>>

\* market_data = data_manager.cache["market"]  (and likewise per section);
\* the body of the section then draws the bound value, touching nothing shared
render_bind ==
    /\ pc["ui"] = "render_bind"
    /\ local' = cache[KeyOrder[section]]
    /\ seen' = seen \cup {cache_by}
    /\ NextSection
    /\ UNCHANGED <<auxVars, variant, managerVars, stop_event, now, new_data, cycles, failures,
                   stopper, lastGood>>

\* st.rerun() after a manual refresh, or a user interaction after a render
\* pass: the script runs again and finds data_manager in the session state
rerun ==
    /\ pc["ui"] \in {"rerun", "done"}
    /\ pc' = [pc EXCEPT !["ui"] = "sidebar"]
    /\ section' = 0
    /\ local' = None
    /\ seen' = {}
    /\ UNCHANGED <<auxVars, variant, managerVars, stop_event, now, new_data, cycles, failures,
                   stopper, lastGood>>

\* ------------------------------------------------------------------ Next
Next ==
    \/ \E t \in Writers : update_all_data(t)
    \/ start
    \/ loop_check
    \/ loop_sleep
    \/ sidebar
    \/ render_check
    \/ render_bind
    \/ rerun

Spec == Init /\ [][Next]_vars

\* app.py
SpecApp == InitApp /\ [][Next]_vars

\* the same program with a caller of stop()
NextStop ==
    \/ Next
    \/ stop_set
    \/ stop_join

SpecStop == Init /\ [][NextStop]_vars

\* ------------------------------------------------------- resilient fetch
\* the outcomes a call of an adapter can have
CallOutcomes(b) ==
    CASE b = "succeeds" -> {TRUE}
      [] b = "fails" -> {FALSE}
      [] b = "either" -> {TRUE, FALSE}

\* variation: the attempt counter goes on counting across adapters
KeepAttempts(n) == n

\* the attempt counter with which the next adapter starts
ResetAttempts(n) == 0

\* one attempt: the current adapter is called; a value ends the fetch, a
\* failure is followed by a backoff sleep while the adapter has attempts
\* left, else by the next adapter, else by FetchFailure
rf_attempt ==
    /\ rf.at = "attempt"
    /\ \E ok \in CallOutcomes(rf.adapters[rf.adapter]) :
          LET n == rf.attempt + 1
              logged == [rf EXCEPT !.attempt = n,
                                   !.log = Append(@, FetchAttempt(rf.adapter, n, ok))]
          IN  rf' = IF ok
                    THEN [logged EXCEPT !.at = "done", !.result = <<"value", rf.adapter>>]
                    ELSE IF n < rf.max_attempts
                    THEN [logged EXCEPT !.at = "backoff"]
                    ELSE IF rf.adapter < Len(rf.adapters)
                    THEN [logged EXCEPT !.adapter = @ + 1, !.attempt = ResetAttempts(n)]
                    ELSE [logged EXCEPT !.at = "done", !.result = FetchFailure]
    /\ UNCHANGED <<dmVars, sessions, norm, macro>>

\* the jittered sleep between two attempts on one adapter has passed
rf_backoff ==
    /\ rf.at = "backoff"
    /\ rf' = [rf EXCEPT !.at = "attempt"]
    /\ UNCHANGED <<dmVars, sessions, norm, macro>>

InitFetch ==
    /\ InitOf("app1")
    /\ sessions = NoSessions
    /\ norm = NoFrame
    /\ macro = NoTable
    /\ rf \in {FetchCalled(a, m) : a \in AdapterLists, m \in Policies}

NextFetch == rf_attempt \/ rf_backoff

SpecFetch == InitFetch /\ [][NextFetch]_vars

\* the failed attempts recorded against adapter a
FailedAttempts(a) == {i \in 1 .. Len(rf.log) : rf.log[i].adapter = a /\ ~rf.log[i].ok}

\* ------------------------------------------- the loop thread and stop()
\* the ticks of the clock that one time.sleep(REFRESH_INTERVAL) lasts
SleepTicks == 2

\* time.sleep(REFRESH_INTERVAL) is called
sleep_begin ==
    /\ pc["loop"] = "sleep"
    /\ pc' = [pc EXCEPT !["loop"] = "sleeping"]
    /\ sleep_left' = SleepTicks
    /\ UNCHANGED <<stop_at, stop_swaps, otherVars, variant, managerVars, stop_event, now, new_data, cycles,
                   failures, readerVars, stopper, lastGood>>

\* variation: stop_event is looked at before the first cycle only, and
\* after the sleep the next cycle starts at once
sleep_tick_unchecked ==
    /\ pc["loop"] = "sleeping"
    /\ sleep_left' = sleep_left - 1
    /\ IF sleep_left = 1
       THEN BeginUpdate("loop")
       ELSE UNCHANGED <<pc, cycles, new_data>>
    /\ UNCHANGED <<stop_at, stop_swaps, otherVars, variant, managerVars, stop_event, now,
                   failures, readerVars, stopper, lastGood>>

\* a tick passes inside time.sleep, which looks at nothing but the clock and
\* returns when the interval has passed
sleep_tick ==
    /\ pc["loop"] = "sleeping"
    /\ sleep_left' = sleep_left - 1
    /\ pc' = [pc EXCEPT !["loop"] = IF sleep_left = 1 THEN "loop_check" ELSE @]
    /\ UNCHANGED <<stop_at, stop_swaps, otherVars, variant, managerVars, stop_event, now, new_data, cycles,
                   failures, readerVars, stopper, lastGood>>

\* the loop thread alone, its sleep tick by tick, and a caller of stop()
NextLoop ==
    \/ start
    \/ loop_check
    \/ update_all_data("loop")
    \/ sleep_begin
    \/ sleep_tick
    \/ stop_set
    \/ stop_join

SpecLoop == Init /\ [][NextLoop]_vars

\* the threads are scheduled, every fetch returns or raises, and every
\* time.sleep returns
SpecLoopFair ==
    /\ SpecLoop
    /\ WF_vars(loop_check)
    /\ WF_vars(update_all_data("loop"))
    /\ WF_vars(sleep_begin \/ sleep_tick)
    /\ WF_vars(stop_join)

\* the loop thread is between two cycles, in or about to enter time.sleep
Sleeping(p) == p \in {"sleep", "sleeping"}

\* ------------------------------------------------- sessions of one process
\* a browser opens the page, or the user interacts with it: the script of
\* that session runs from the top, with the session's own st.session_state
script_run(s) ==
    /\ \/ sessions[s].script = "closed"
       \/ sessions[s].script = "done" /\ sessions[s].runs <= MaxReruns
    /\ sessions' = [sessions EXCEPT ![s].script = "init", ![s].runs = @ + 1]
    /\ UNCHANGED <<dmVars, rf, norm, macro>>

\* if 'data_manager' not in st.session_state: a DataManager is created and
\* started, which starts its update_loop thread; otherwise the one stored in
\* this session's state is used
init_data_manager(s) ==
    /\ sessions[s].script = "init"
    /\ sessions' = [sessions EXCEPT
                      ![s].script = "body",
                      ![s].data_manager = TRUE,
                      ![s].thread = IF sessions[s].data_manager THEN @ ELSE "loop_check"]
    /\ UNCHANGED <<dmVars, rf, norm, macro>>

\* the rest of the script: sidebar and sections
script_body(s) ==
    /\ sessions[s].script = "body"
    /\ sessions' = [sessions EXCEPT ![s].script = "done"]
    /\ UNCHANGED <<dmVars, rf, norm, macro>>

\* update_loop of the thread started for session s; nothing calls stop(), so
\* its stop_event stays unset and the loop goes round
update_loop(s) ==
    /\ sessions[s].thread # "none"
    /\ sessions' = [sessions EXCEPT
                      ![s].thread = CASE @ = "loop_check" -> "update_all_data"
                                      [] @ = "update_all_data" -> "sleep"
                                      [] @ = "sleep" -> "loop_check"]
    /\ UNCHANGED <<dmVars, rf, norm, macro>>

NextSessions ==
    \E s \in Sessions :
        \/ script_run(s)
        \/ init_data_manager(s)
        \/ script_body(s)
        \/ update_loop(s)

SpecSessions == Init /\ [][NextSessions]_vars

\* the update_loop threads running in the process
LoopThreads == {s \in Sessions : sessions[s].thread # "none"}

\* ------------------------------------------------------ robust_normalize
\* variation: df_norm = df, the same frame under a second name
rn_copy_alias ==
    /\ norm.at = "copy"
    /\ norm' = [norm EXCEPT !.at = "columns", !.df_norm = norm.df, !.view = TRUE]
    /\ UNCHANGED <<dmVars, sessions, rf, macro>>

\* df_norm = df.copy()
rn_copy ==
    /\ norm.at = "copy"
    /\ norm' = [norm EXCEPT !.at = "columns", !.df_norm = norm.df]
    /\ UNCHANGED <<dmVars, sessions, rf, macro>>

\* the column after the body of the loop: rescaled by its first valid value
\* if it has one and that is not 0
NormalizedColumn(col) ==
    LET first_valid == first_valid_index(col)
    IN  IF first_valid # 0 /\ col[first_valid] # Zero
        THEN [i \in DOMAIN col |-> fmul(fdiv(col[i], col[first_valid]), Hundred)]
        ELSE col

\* for col in df_norm.columns: one pass of the loop body
rn_column ==
    /\ norm.at = "columns"
    /\ norm.col <= Len(ColumnOrder)
    /\ LET c == ColumnOrder[norm.col]
           after == [norm.df_norm EXCEPT ![c] = NormalizedColumn(@)]
       IN  norm' = [norm EXCEPT !.df_norm = after,
                                !.df = IF norm.view THEN after ELSE @,
                                !.col = @ + 1]
    /\ UNCHANGED <<dmVars, sessions, rf, macro>>

\* return df_norm
rn_return ==
    /\ norm.at = "columns"
    /\ norm.col > Len(ColumnOrder)
    /\ norm' = [norm EXCEPT !.at = "returned"]
    /\ UNCHANGED <<dmVars, sessions, rf, macro>>

\* robust_normalize is called on the frame it returned
rn_again ==
    /\ norm.at = "returned"
    /\ norm.pass = 1
    /\ norm' = NormCalled(norm.df_norm, 2, norm.df_norm)
    /\ UNCHANGED <<dmVars, sessions, rf, macro>>

InitNorm ==
    /\ InitOf("app1")
    /\ sessions = NoSessions
    /\ rf = NoFetch
    /\ macro = NoTable
    /\ norm \in {NormCalled(f, 1, f) : f \in Frames}

NextNorm == rn_copy \/ rn_column \/ rn_return \/ rn_again

SpecNorm == InitNorm /\ [][NextNorm]_vars

\* --------------------------------------------------------- build_results
\* for _, row in df.iterrows(): the next row, or the end of the loop
br_iterrows ==
    /\ macro.at = "iterrows"
    /\ macro' = [macro EXCEPT !.at = IF macro.row <= Len(macro.table)
                                     THEN "download" ELSE "returned"]
    /\ UNCHANGED <<dmVars, sessions, rf, norm>>

\* get_pct_change: the try block up to the download of the row's symbol; an
\* exception goes to the handler, which returns None
gpc_download ==
    /\ macro.at = "download"
    /\ \E d \in Downloads :
          macro' = [macro EXCEPT
                      !.data = Append(@, [symbol |-> macro.table[macro.row], raises |-> d.raises,
                                          rows |-> d.rows]),
                      !.pct = PctNone,
                      !.at = IF d.raises THEN "append" ELSE "compute"]
    /\ UNCHANGED <<dmVars, sessions, rf, norm>>

\* get_pct_change: None for fewer than two rows, else the change from the
\* first to the last row in percent
gpc_compute ==
    /\ macro.at = "compute"
    /\ LET rows == macro.data[Len(macro.data)].rows
           first == rows[1]
           last == rows[Len(rows)]
       IN  macro' = [macro EXCEPT
                       !.pct = IF Len(rows) < 2 THEN PctNone
                               ELSE Pct(fmul(fdiv(fsub(last, first), first), Hundred)),
                       !.at = "append"]
    /\ UNCHANGED <<dmVars, sessions, rf, norm>>

\* variation: only the symbols with a result are collected
br_append_found ==
    /\ macro.at = "append"
    /\ macro' = [macro EXCEPT !.results = IF macro.pct.some THEN Append(@, macro.pct) ELSE @,
                               !.row = @ + 1,
                               !.at = "iterrows"]
    /\ UNCHANGED <<dmVars, sessions, rf, norm>>

\* results.append(pct)
br_append ==
    /\ macro.at = "append"
    /\ macro' = [macro EXCEPT !.results = Append(@, macro.pct),
                               !.row = @ + 1,
                               !.at = "iterrows"]
    /\ UNCHANGED <<dmVars, sessions, rf, norm>>

InitMacro ==
    /\ InitOf("app1")
    /\ sessions = NoSessions
    /\ rf = NoFetch
    /\ norm = NoFrame
    /\ macro = BuildCalled(Symbols)

NextMacro == br_iterrows \/ gpc_download \/ gpc_compute \/ br_append

SpecMacro == InitMacro /\ [][NextMacro]_vars

\* ================================================================ claims
\* no thread is inside update_all_data
Quiescent == \A t \in Writers : ~InUpdate(t)

\* the thread is inside the with block
InSwap(t) == pc[t] \in {"uad_cache", "uad_lu", "uad_unlock"}

\* the items of a container were all fetched by call c
FetchedBy(v, c) == \A i \in DOMAIN v.items : v.items[i].src = c

\* the fetches a call has attempted when its try block ends: the entries
\* evaluated, and the fetch that raised
Attempted(t) ==
    DOMAIN new_data[t] \cup
        (IF pc[t] = "uad_except" THEN {KeyOrder[Cardinality(DOMAIN new_data[t]) + 1]} ELSE {})

\* thread t executes  self.cache = new_data  in this step
AssignsCache(t) == pc[t] = "uad_cache" /\ pc'[t] = "uad_lu"

\* C1: whenever no update is running, every key for which some fetch has
\* succeeded holds the value of the last successful fetch of that key.
C1_LastSuccessfulValue ==
    Quiescent =>
        \A k \in DatasetKeys :
            lastGood[k] # InitCall => Truthy(cache[k]) /\ FetchedBy(cache[k], lastGood[k])

\* C2: a key that holds a non-empty value holds a non-empty value in the
\* next state too, and a swap whose fetch of the key failed leaves the key's
\* value (with its timestamp) as it was.
C2_PopulatedStaysPopulated ==
    [][\A k \in DatasetKeys :
          /\ Truthy(cache[k]) => Truthy(cache'[k])
          /\ \A t \in Writers :
                AssignsCache(t) /\ ~Truthy(new_data[t][k]) /\ Truthy(cache[k])
                    => cache'[k] = cache[k]]_vars

\* C3: a cycle whose "rates" fetch failed and whose "market" fetch succeeded
\* leaves the previous "rates" value, timestamp included, in the cache and
\* stores the new "market" value.
C3_RatesKeptMarketUpdated ==
    [][\A t \in Writers :
          (/\ AssignsCache(t)
           /\ Truthy(cache["rates"])
           /\ ~Truthy(new_data[t]["rates"])
           /\ Truthy(new_data[t]["market"]))
          => /\ cache'["rates"] = cache["rates"]
             /\ cache'["market"] = new_data[t]["market"]]_vars

\* C4: when the try block of update_all_data ends, at the lock or in the
\* handler, each of the six dataset fetches has been attempted.
C4_AllDatasetsAttempted ==
    \A t \in Writers : pc[t] \in {"uad_lock", "uad_except"} => Attempted(t) = DatasetKeys

\* C5: no step replaces a key's value by one observed earlier.
C5_OlderResultIsNoOp ==
    [][\A k \in DatasetKeys :
          Truthy(cache[k]) /\ Truthy(cache'[k])
              => ObservedAt(cache'[k]) >= ObservedAt(cache[k])]_vars

\* C6: last_updated never decreases.
C6_LastUpdatedMonotonic == [][last_updated' >= last_updated]_vars

\* C6 witness: the manual refresh has stored its timestamp while the
\* background cycle, whose fetches are done, waits for the lock.
C6_Witness ==
    /\ pc["ui"] = "uad_unlock"
    /\ pc["loop"] = "uad_lock"
    /\ lu_by = Call("ui")
    /\ last_updated > 0

\* C7: the values bound by one complete render pass all come from one
\* committed update.
C7_RenderPassOneSnapshot == pc["ui"] = "done" => Cardinality(seen) <= 1

\* C8: the value a section has bound consists of items of one fetch.
C8_NoMixedValue ==
    \A i \in DOMAIN local.items, j \in DOMAIN local.items :
        local.items[i].src = local.items[j].src

\* C8 witness: a section has bound the value of the second update while
\* that update is between its two assignments.
C8_Witness ==
    /\ pc["ui"] = "render_check"
    /\ pc["loop"] = "uad_lu"
    /\ cycles["loop"] = 2
    /\ Truthy(local)
    /\ FetchedBy(local, Call("loop"))

\* C9: the two writers are never both inside the with block, and whenever
\* the lock is free self.cache and self.last_updated were assigned by the
\* same call.
C9_SwapsExclusive ==
    /\ ~(InSwap("loop") /\ InSwap("ui"))
    /\ data_lock = Free => cache_by = lu_by

\* C9 witness: the manual refresh waits for the lock while the background
\* cycle is between its two assignments.
C9_Witness ==
    /\ pc["ui"] = "uad_lock"
    /\ pc["loop"] = "uad_lu"
    /\ data_lock = "loop"

\* C10: a thread that holds data_lock is inside the with block: it is not
\* fetching, not in the handler and not sleeping.
C10_LockOnlyForSwap == \A t \in Writers : data_lock = t => InSwap(t)

\* C10 witness: the loop sleeps after a swap of its own while the manual
\* refresh holds the lock.
C10_Witness ==
    /\ pc["loop"] = "sleep"
    /\ cache_by = Call("loop")
    /\ data_lock = "ui"
    /\ pc["ui"] = "uad_cache"

\* C11: a read of the cache is enabled wherever the script stands before
\* one, whatever the writers are doing, and the loop thread inside
\* update_all_data or in its sleep can always take its next step unless it
\* waits for the lock that the other writer holds: no reader blocks it.
C11_ReadsNeverBlocked ==
    /\ pc["ui"] = "render_check" => ENABLED render_check
    /\ pc["ui"] = "render_bind" => ENABLED render_bind
    /\ pc["loop"] \in {"uad_fetch", "uad_cache", "uad_lu", "uad_unlock", "uad_except"}
           => ENABLED update_all_data("loop")
    /\ pc["loop"] = "uad_lock" /\ ~InSwap("ui") => ENABLED uad_acquire("loop")
    /\ pc["loop"] = "sleep" => ENABLED loop_sleep

\* C11 witness: a section is about to bind the cache value while the loop
\* thread, inside the with block, holds data_lock between its two
\* assignments.
C11_Witness ==
    /\ pc["ui"] = "render_bind"
    /\ pc["loop"] = "uad_lu"
    /\ data_lock = "loop"

\* C12: at most one DataManager update_loop thread runs in the process at
\* any time, whatever the number of sessions and of script reruns.
C12_OneLoopThread == Cardinality(LoopThreads) <= 1

\* C13: once stop_event has been set while the loop thread was in its
\* inter-cycle sleep, the thread starts no further update_all_data and
\* assigns neither self.cache nor self.last_updated; it holds no lock and
\* the two fields are those of one call.
C13_StopInSleepNoCycle ==
    /\ [](Sleeping(stop_at) => data_lock = Free /\ cache_by = lu_by)
    /\ [][Sleeping(stop_at) =>
             /\ pc'["loop"] \in {"sleep", "sleeping", "loop_check", "exited"}
             /\ cache' = cache
             /\ last_updated' = last_updated]_vars

\* C13 witness: stop_event was set during the sleep that followed a swap of
\* the loop thread, and the thread has exited.
C13_Witness ==
    /\ stop_at = "sleeping"
    /\ pc["loop"] = "exited"
    /\ cache_by = Call("loop")
    /\ cycles["loop"] = 1

\* C14: a tick that passes in the sleep of the loop thread after stop_event
\* was set ends the sleep: the thread does not stay asleep for the rest of
\* the refresh interval.
C14_ExitWithinOneTick ==
    [][stop_event /\ pc["loop"] = "sleeping" /\ sleep_left' # sleep_left
           => pc'["loop"] # "sleeping"]_vars

\* C15: once stop() has set stop_event and waits in join, the loop thread
\* eventually exits and stop() returns; stop() has returned only when the
\* loop thread has ended.
C15_StopReturns ==
    /\ [](stopper = "returned" => pc["loop"] = "exited")
    /\ (stopper = "joining" ~> (stopper = "returned" /\ pc["loop"] = "exited"))

\* C15 witness: stop() was called while the loop thread was fetching, and
\* has returned after the thread finished that cycle and exited.
C15_Witness ==
    /\ stop_at = "uad_fetch"
    /\ stopper = "returned"
    /\ pc["loop"] = "exited"
    /\ stop_event

\* C16: the loop thread ends only after stop_event was set, and from the
\* handler of update_all_data it goes to the sleep between cycles, leaving
\* self.cache and self.last_updated as they were.
C16_FailureStaysInCycle ==
    /\ [](pc["loop"] = "exited" => stop_event)
    /\ [][pc["loop"] = "uad_except" /\ pc'["loop"] # "uad_except"
             => pc'["loop"] = "sleep" /\ cache' = cache /\ last_updated' = last_updated]_vars

\* C16 witness: the first cycle of the loop thread raised, so nothing was
\* stored, and with no stop signalled the thread has slept and is in its
\* second cycle with the fetches done.
C16_Witness ==
    /\ cycles["loop"] = 2
    /\ pc["loop"] = "uad_lock"
    /\ cache_by = InitCall
    /\ failures > 0
    /\ ~stop_event

\* C17: no dataset fetch raises, whatever the provider calls do: no thread
\* ever stands in the handler of update_all_data, which only an exception
\* leaving a fetch reaches.
C17_NoFetchRaises == \A t \in Writers : pc[t] # "uad_except"

\* C19: with max_attempts = 3, a primary adapter that always fails and one
\* fallback adapter that always succeeds, the finished fetch has returned
\* the fallback's value; its record is three failed attempts on the
\* primary, numbered 1 to 3, and then one successful attempt on the
\* fallback, numbered 1 again.
C19_FallbackAfterThreeFailures ==
    rf.at = "done" /\ rf.max_attempts = 3 /\ rf.adapters = <<"fails", "succeeds">>
        => /\ rf.result = <<"value", 2>>
           /\ rf.log = <<FetchAttempt(1, 1, FALSE), FetchAttempt(1, 2, FALSE),
                         FetchAttempt(1, 3, FALSE), FetchAttempt(2, 1, TRUE)>>
           /\ Cardinality(FailedAttempts(1)) = 3

\* C19 witness: that fetch has finished.
C19_Witness ==
    /\ rf.at = "done"
    /\ rf.max_attempts = 3
    /\ rf.adapters = <<"fails", "succeeds">>
    /\ Len(rf.log) = 4

\* C18: when a call whose market fetch failed for every ticker stores its
\* result over a populated cache, each ticker was looked up more than once
\* (the fetch retried) and the market value of the cache stays as it was.
C18_RetriedAndCacheKept ==
    [][\A t \in Writers :
          /\ AssignsCache(t)
          /\ Truthy(cache["market"])
          /\ DOMAIN new_data[t]["market"].items = {}
          => /\ \A i \in Items : LookupAttempts({}, i) >= 2
             /\ cache'["market"] = cache["market"]]_vars

\* C20: the VIX value in the cache is a value the provider returned, never
\* a number put in its place after the quote lookup failed.
C20_NoSubstituteValue ==
    Truthy(cache["risk"]) /\ VIX \in DOMAIN cache["risk"].items
        => cache["risk"].items[VIX].real

\* C21: when a thread returns from an update_all_data call in which all six
\* fetches were evaluated, self.last_updated is the timestamp that call
\* stored, whether or not lookups inside the fetches failed.
C21_CycleEndsWithTimestamp ==
    [][\A t \in Writers :
          InUpdate(t) /\ pc'[t] = AfterUpdate(t) /\ DOMAIN new_data[t] = DatasetKeys
              => lu_by = Call(t) /\ last_updated > 0]_vars

\* C21 witness: the loop thread sleeps after a cycle whose market fetch
\* found nothing, and self.last_updated is the timestamp of that cycle.
C21_Witness ==
    /\ pc["loop"] = "sleep"
    /\ lu_by = Call("loop")
    /\ cache_by = Call("loop")
    /\ cache["market"].set
    /\ ~Truthy(cache["market"])

\* C22: until an update has stored its result every dataset is None; the
\* loop thread reaches its sleep only after a cycle; and once the loop
\* thread has finished a cycle no dataset key holds None.
C22_FirstCyclePopulates ==
    /\ cache_by = InitCall => \A k \in DatasetKeys : ~cache[k].set
    /\ pc["loop"] = "sleep" => cycles["loop"] >= 1
    /\ pc["loop"] = "sleep" => \A k \in DatasetKeys : cache[k].set

\* C23: when robust_normalize returns, a column whose first valid value is
\* not 0 has 100 at the row of that value and missing values where the
\* argument had them; a column with no valid value or with first valid
\* value 0 is as it was passed; and the frame passed is as it was passed.
C23_FirstValidBecomes100 ==
    norm.at = "returned" =>
        /\ \A c \in Columns :
              LET first_valid == first_valid_index(norm.arg[c])
              IN  IF first_valid # 0 /\ norm.arg[c][first_valid] # Zero
                  THEN /\ norm.df_norm[c][first_valid] = Hundred
                       /\ \A i \in 1 .. NRows : norm.df_norm[c][i].nan = norm.arg[c][i].nan
                  ELSE norm.df_norm[c] = norm.arg[c]
        /\ norm.df = norm.arg

\* C23 witness: the call has returned a frame in which one column, missing
\* in its first row, was rescaled and the other, starting at 0, was not.
C23_Witness ==
    /\ norm.at = "returned"
    /\ norm.pass = 1
    /\ norm.arg["S&P 500"][1].nan
    /\ norm.arg["S&P 500"][2] = FromInt(41)
    /\ norm.df_norm["S&P 500"][2] = Hundred
    /\ norm.arg["NASDAQ"][1] = Zero
    /\ norm.df_norm["NASDAQ"] = norm.arg["NASDAQ"]

\* C29: the second call, made on the frame the first call returned, returns
\* that frame.
C29_Idempotent == norm.at = "returned" /\ norm.pass = 2 => norm.df_norm = norm.once

\* C29 witness: the second call has returned, for an argument whose second
\* row the first call rescaled to a power of two, 16, where rounding is
\* coarser below the value than above it.
C29_Witness ==
    /\ norm.at = "returned"
    /\ norm.pass = 2
    /\ norm.once["S&P 500"][1] = Hundred
    /\ norm.once["S&P 500"][2] = FromInt(16)

\* the changes a step may make to self.cache and self.last_updated
C24_Step ==
    /\ cache' # cache =>
          \E t \in Writers :
              /\ data_lock = t /\ data_lock' = t
              /\ cache' = new_data[t]
              /\ DOMAIN cache' = DatasetKeys
              /\ cache_by' = Call(t)
    /\ last_updated' # last_updated =>
          \E u \in Writers :
              /\ data_lock = u /\ data_lock' = u
              /\ cache_by = Call(u)
              /\ lu_by' = Call(u)
    /\ data_lock # Free /\ data_lock' = Free =>
          cache_by = Call(data_lock) /\ lu_by = Call(data_lock)

\* C24: self.cache and self.last_updated change only inside the with block
\* of a call, the cache to that call's dict of all six datasets and then
\* the timestamp; when the lock is released both are that call's; and a
\* call that is in its handler has assigned neither.
C24_AllOrNothing ==
    /\ [](\A t \in Writers :
             pc[t] = "uad_except" => cache_by # Call(t) /\ lu_by # Call(t))
    /\ [][C24_Step]_vars

\* C24 witness: the second call of the loop thread raised and has returned;
\* self.cache and self.last_updated are those of its first call.
C24_Witness ==
    /\ pc["loop"] = "sleep"
    /\ cycles["loop"] = 2
    /\ cache_by = <<"loop", 1>>
    /\ lu_by = <<"loop", 1>>
    /\ DOMAIN cache = DatasetKeys

\* C25: the value the market section binds to market_data, after its check
\* of the cache was truthy, is a non-empty list.
C25_MarketBoundNonEmpty ==
    [][pc["ui"] = "render_bind" /\ KeyOrder[section] = "market" /\ pc'["ui"] # "render_bind"
           => Truthy(local')]_vars

C27_AtMostOneSwapAfterStop == stop_swaps <= 1

\* C27 witness: stop_event was set when update_all_data had just been
\* called; the loop thread stored the result of that cycle and has exited.
C27_Witness ==
    /\ stop_at = "uad_fetch"
    /\ stop_swaps = 1
    /\ pc["loop"] = "exited"
    /\ cache_by = Call("loop")

\* C28: build_results returns one entry per row of the table, in row order:
\* None where the download for the row's symbol raised or had fewer than
\* two rows, and otherwise ((last - first) / first) * 100 of the first and
\* the last row of the window downloaded for that symbol.
C28_OneEntryPerRow ==
    macro.at = "returned" =>
        /\ Len(macro.results) = Len(macro.table)
        /\ \A i \in 1 .. Len(macro.table) :
              LET d == macro.data[i]
                  n == Len(d.rows)
              IN  /\ d.symbol = macro.table[i]
                  /\ macro.results[i] =
                        IF d.raises \/ n < 2 THEN PctNone
                        ELSE Pct(fmul(fdiv(fsub(d.rows[n], d.rows[1]), d.rows[1]), Hundred))

\* C28 witness: build_results has returned None for the first symbol, whose
\* download raised, and 925 percent for the second, whose window of three
\* rows went from 4 to 41.
C28_Witness ==
    /\ macro.at = "returned"
    /\ macro.data[1].raises
    /\ macro.results[1] = PctNone
    /\ macro.data[2].rows = <<FromInt(4), FromInt(4), FromInt(41)>>
    /\ macro.results[2].some
    /\ ~macro.results[2].pct.neg

====
